---- MODULE Spec2Model ----
(***************************************************************************)
(* Model of the ConnectRPC file upload server (cmd/server/main.go, the     *)
(* explicit-commit variant): sanitizeFilename and the streaming handler    *)
(* Server.Upload, run against a small POSIX-like file system.              *)
(*                                                                         *)
(* A session is one call of Server.Upload.  Its loop is cut at the only    *)
(* blocking point, stream.Receive(): one action delivers a message and     *)
(* runs the select on ctx.Done(), one action per case of the type switch   *)
(* handles the message.  The context may be cancelled by the transport at  *)
(* any moment, also between the select and the end of the handler.         *)
(***************************************************************************)
EXTENDS Integers, Sequences, FiniteSets, TLC

(***************************************************************************)
(* Bounds of the model.                                                    *)
(***************************************************************************)
MaxChunks == 2        \* chunk messages a client sends on one stream
MaxChunkLen == 2      \* bytes in one chunk
MaxNameLen == 4       \* characters in a filename given to sanitizeFilename
DigestBytes == 2      \* width of the model digest (sha256.Size is 32)
MaxFileLen == 3       \* bytes in the file the Go client uploads
chunkSize == 2        \* bytes the Go client reads at once (32 KB in the source)

Sessions == {1, 2}

Byte == {0, 1}

Chunks == UNION {[1..n -> Byte] : n \in 0..MaxChunkLen}

Max(a, b) == IF a >= b THEN a ELSE b

(***************************************************************************)
(* Strings are sequences of one-character strings.                         *)
(***************************************************************************)
Char == {"/", "\\", ".", "a"}

Filenames == UNION {[1..n -> Char] : n \in 0..MaxNameLen}

uploadDir == <<"u", "p", "l", "o", "a", "d", "s">>

UnnamedFile == <<"u", "n", "n", "a", "m", "e", "d", "_", "f", "i", "l", "e">>

(***************************************************************************)
(* path/filepath on a Unix build: "/" is the only separator and there are  *)
(* no volume names.                                                        *)
(***************************************************************************)
Separator == "/"

IsPathSeparator(c) == c = Separator

RECURSIVE StripTrailingSlashes(_)
StripTrailingSlashes(path) ==
    IF Len(path) > 0 /\ IsPathSeparator(path[Len(path)])
    THEN StripTrailingSlashes(SubSeq(path, 1, Len(path) - 1))
    ELSE path

\* index of the last separator of path, 0 when it has none
LastSeparator(path) ==
    LET S == {i \in 1..Len(path) : IsPathSeparator(path[i])}
    IN  IF S = {} THEN 0 ELSE CHOOSE i \in S : \A j \in S : j <= i

\* filepath.Base that returns the path without splitting it
BaseUnsplit(path) == IF path = <<>> THEN <<".">> ELSE path

\* filepath.Base: the last element of path; "." for the empty path and
\* the separator for a path of separators only
Base(path) ==
    IF path = <<>> THEN <<".">>
    ELSE LET stripped == StripTrailingSlashes(path)
             last == SubSeq(stripped, LastSeparator(stripped) + 1, Len(stripped))
         IN  IF last = <<>> THEN <<Separator>> ELSE last

\* strings.ReplaceAll for a one-character old and new
ReplaceAll(s, old, new) == [i \in 1..Len(s) |-> IF s[i] = old THEN new ELSE s[i]]

\* sanitizeFilename that only replaces the empty name
sanitizeFilenameEmptyOnly(filename) ==
    LET base0 == Base(filename)
        base1 == ReplaceAll(base0, "/", "_")
        base2 == ReplaceAll(base1, "\\", "_")
    IN  IF base2 = <<>> THEN UnnamedFile ELSE base2

sanitizeFilename(filename) ==
    LET base0 == Base(filename)
        base1 == ReplaceAll(base0, "/", "_")
        base2 == ReplaceAll(base1, "\\", "_")
    IN  IF base2 = <<>> \/ base2 = <<".">> \/ base2 = <<".", ".">>
        THEN UnnamedFile
        ELSE base2

\* filepath.Join(dir, name) for a name without separators that is not "."
\* or "..": Clean leaves dir/name as it is
Join(dir, name) == dir \o <<Separator>> \o name

(***************************************************************************)
(* crypto/sha256 and encoding/hex.  The digest is an iterated compression  *)
(* of the running state with each byte written, DigestBytes wide; Sum      *)
(* returns the state and EncodeToString prints it as lowercase hex digits, *)
(* two per digest byte.                                                    *)
(***************************************************************************)
DigestModulus == 256 ^ DigestBytes

HashNew == 0

RECURSIVE HashWrite(_, _)
HashWrite(h, bytes) ==
    IF bytes = <<>> THEN h
    ELSE HashWrite((h * (Cardinality(Byte) + 1) + Head(bytes) + 1) % DigestModulus,
                   Tail(bytes))

HashSum(h) == h

HexDigits == <<"0", "1", "2", "3", "4", "5", "6", "7",
               "8", "9", "a", "b", "c", "d", "e", "f">>

EncodeToString(n) ==
    [i \in 1..(2 * DigestBytes) |->
        HexDigits[((n \div (16 ^ (2 * DigestBytes - i))) % 16) + 1]]

\* the digest string of a whole byte sequence hashed in one pass
Sha256Hex(bytes) == EncodeToString(HashSum(HashWrite(HashNew, bytes)))

RECURSIVE Concat(_)
Concat(chunks) ==
    IF chunks = <<>> THEN <<>> ELSE Head(chunks) \o Concat(Tail(chunks))

(***************************************************************************)
(* The upload directory.  dir maps each path to the inode it names (0: no  *)
(* such file), inodes gives each inode's contents.  An open handle names   *)
(* an inode, not a path.  Inode i <= Len(PathList) is the file that was at *)
(* PathList[i] before the session started; session s creates inode         *)
(* Len(PathList) + s.                                                      *)
(***************************************************************************)
MetaFilenames == {<<"a">>, <<".", ".", "/", "a">>, <<".", ".">>}

PathList == <<Join(uploadDir, <<"a">>),
              Join(uploadDir, UnnamedFile),
              Join(uploadDir, <<"b">>)>>

Paths == {PathList[i] : i \in 1..Len(PathList)}

InodeIds == 1..(Len(PathList) + Cardinality(Sessions))

PathIndex(p) == CHOOSE i \in 1..Len(PathList) : PathList[i] = p

\* a file system that hands every session the same new file
NewInodeShared(s) == Len(PathList) + 1

NewInode(s) == Len(PathList) + s

\* what a file left by an earlier upload contains
StaleContent == <<1, 1, 1>>

Exists(d, p) == d[p] # 0

\* the bytes of the file at path p; only used where it exists
Content(d, ino, p) == ino[d[p]]

NilFile == [isNil |-> TRUE, ino |-> 0, off |-> 0, open |-> FALSE]

\* pwrite of bytes at offset off: a hole left by a truncation reads as 0
WriteAt(content, off, bytes) ==
    IF bytes = <<>> THEN content
    ELSE [i \in 1..Max(Len(content), off + Len(bytes)) |->
            IF i > off /\ i <= off + Len(bytes) THEN bytes[i - off]
            ELSE IF i <= Len(content) THEN content[i]
            ELSE 0]

(***************************************************************************)
(* Messages and outcomes.                                                  *)
(***************************************************************************)
NoMsg == [kind |-> "nil", filename |-> <<>>, chunk |-> <<>>, digest |-> <<>>]

MetadataMsg(f) == [NoMsg EXCEPT !.kind = "metadata", !.filename = f]

ChunkMsg(c) == [NoMsg EXCEPT !.kind = "chunk", !.chunk = c]

FinishCommitMsg(d) == [NoMsg EXCEPT !.kind = "finish_commit", !.digest = d]

\* an UploadRequest whose oneof payload is not set
EmptyMsg == [NoMsg EXCEPT !.kind = "unknown"]

NoResult == [kind |-> "none", message |-> "", size |-> 0, hashOk |-> FALSE]

\* UploadFileRequest; set is FALSE while there is no call
NoRequest == [set |-> FALSE, filename |-> <<>>, data |-> <<>>, sha256 |-> <<>>]

UploadFileRequest(f, d, h) == [set |-> TRUE, filename |-> f, data |-> d, sha256 |-> h]

\* an error constructor that reports every failure as CodeInternal
FailureInternal(kind, message) == [NoResult EXCEPT !.kind = "internal", !.message = message]

Failure(kind, message) == [NoResult EXCEPT !.kind = kind, !.message = message]

UploadResponse(message, size, hashOk) ==
    [kind |-> "ok", message |-> message, size |-> size, hashOk |-> hashOk]

ToUpper(str) ==
    [i \in 1..Len(str) |->
        CASE str[i] = "a" -> "A" [] str[i] = "b" -> "B" [] str[i] = "c" -> "C"
          [] str[i] = "d" -> "D" [] str[i] = "e" -> "E" [] str[i] = "f" -> "F"
          [] OTHER -> str[i]]

VARIABLES
    pc,          \* per session: "off", "recv" (in stream.Receive), "switch", "done"
    msg,         \* per session: the message stream.Msg() returns
    file,        \* per session: the *os.File, NilFile while nil
    filename,    \* per session: the sanitized filename
    totalSize,   \* per session: bytes counted
    hasher,      \* per session: running sha256 state
    ctxDone,     \* per session: ctx.Done() is closed
    result,      \* per session: what Upload returned
    chunksLeft,  \* per session: chunk messages the client may still send
    handled,     \* per session: the messages read by stream.Msg() (history)
    accepted,    \* per session: chunks written and hashed (history)
    calls,       \* per session: the file system calls made (history)
    dir,         \* path -> inode, 0 when absent
    inodes,      \* inode -> contents
    sanIn,       \* input of the sanitizeFilename run
    sanOut,      \* its output
    sanDone,     \* sanitizeFilename has returned
    client,      \* per session: what its client sends
    received,    \* per session: times stream.Receive() returned true (history)
    uReq,        \* the UploadFileRequest of the unary call
    uResult,     \* what UploadFile returned
    udir,        \* path -> inode, in the upload directory of the unary call
    uinodes,     \* inode -> contents, there
    metadataReceived,  \* per session, server without commit message: metadataReceived
    clientHashes,      \* per session, server without commit message: clientHash
    cPc,         \* Go client: where main is, "off" when it does not run
    cPath,       \* Go client: os.Args[1]
    cFile,       \* Go client: the bytes of the file at path
    cOffset,     \* Go client: bytes of f read so far
    cHasher,     \* Go client: hasher, fed by the TeeReader
    cTotalBytes, \* Go client: totalBytes
    cSent,       \* Go client: the messages sent on the stream, in order
    cResp        \* Go client: what CloseAndReceive returned

sessVars == <<pc, msg, file, filename, totalSize, hasher, ctxDone, result,
              chunksLeft, handled, accepted, calls>>


fsVars == <<dir, inodes>>

sanVars == <<sanIn, sanOut, sanDone>>

unaryVars == <<uReq, uResult, udir, uinodes>>

variantVars == <<metadataReceived, clientHashes>>

goVars == <<cPc, cPath, cFile, cOffset, cHasher, cTotalBytes, cSent, cResp>>

\* what the actions of Server.Upload never touch
restVars == <<sanVars, unaryVars, variantVars, client, goVars>>

\* the same and the count of messages received
auxVars == <<restVars, received>>

vars == <<sessVars, fsVars, auxVars>>

\* the session's resolved path, filepath.Join(uploadDir, filename)
SafePath(s) == Join(uploadDir, filename[s])

(***************************************************************************)
(* The state when Server.Upload is entered (lines 43-48), for the sessions *)
(* in running; the other sessions never start.                             *)
(***************************************************************************)
InitSessions(running) ==
    /\ pc = [s \in Sessions |-> IF s \in running THEN "recv" ELSE "off"]
    /\ msg = [s \in Sessions |-> NoMsg]
    /\ file = [s \in Sessions |-> NilFile]
    /\ filename = [s \in Sessions |-> <<>>]
    /\ totalSize = [s \in Sessions |-> 0]
    /\ hasher = [s \in Sessions |-> HashNew]
    /\ ctxDone = [s \in Sessions |-> FALSE]
    /\ result = [s \in Sessions |-> NoResult]
    /\ chunksLeft = [s \in Sessions |-> IF s \in running THEN MaxChunks ELSE 0]
    /\ handled = [s \in Sessions |-> <<>>]
    /\ accepted = [s \in Sessions |-> <<>>]
    /\ calls = [s \in Sessions |-> <<>>]
    /\ received = [s \in Sessions |-> 0]

\* the upload directory holds files of earlier uploads at the paths the
\* clients name, or not, and one at a path no client names
InitFs ==
    /\ dir \in {d \in [Paths -> 0..Len(PathList)] :
                  /\ \A p \in Paths : d[p] \in {0, PathIndex(p)}
                  /\ d[PathList[Len(PathList)]] # 0}
    /\ inodes = [i \in InodeIds |-> IF i <= Len(PathList) THEN StaleContent ELSE <<>>]

\* no sanitizeFilename run on its own
NoSanitize ==
    /\ sanIn = <<>>
    /\ sanOut = <<>>
    /\ sanDone = FALSE

\* no UploadFile call
NoUnary ==
    /\ uReq = NoRequest
    /\ uResult = NoResult
    /\ udir = [p \in Paths |-> 0]
    /\ uinodes = [i \in InodeIds |-> <<>>]

\* the locals of the server without commit message, as declared
InitVariant ==
    /\ metadataReceived = [s \in Sessions |-> FALSE]
    /\ clientHashes = [s \in Sessions |-> <<>>]

\* no Go client: the messages of the sessions come from client
NoGoClient ==
    /\ cPc = "off"
    /\ cPath = <<>>
    /\ cFile = <<>>
    /\ cOffset = 0
    /\ cHasher = HashNew
    /\ cTotalBytes = 0
    /\ cSent = <<>>
    /\ cResp = NoResult

\* a client that may send any message at any time
AnyClient == [script |-> <<>>, filenames |-> MetaFilenames, chunks |-> Chunks]

Init ==
    /\ InitSessions({1})
    /\ InitFs
    /\ client = [s \in Sessions |-> AnyClient]
    /\ NoSanitize
    /\ NoUnary
    /\ InitVariant
    /\ NoGoClient

(***************************************************************************)
(* File system calls.                                                      *)
(***************************************************************************)
\* os.Create that gives every session a file of its own
CreateInodePrivate(s, p) == NewInode(s)

\* os.Create(p): O_CREATE|O_TRUNC, an existing file keeps its inode
CreateInode(s, p) == IF Exists(dir, p) THEN dir[p] ELSE NewInode(s)

\* os.Create that opens without O_TRUNC
OsCreateNoTrunc(s, p) ==
    /\ dir' = [dir EXCEPT ![p] = CreateInode(s, p)]
    /\ inodes' = inodes

OsCreate(s, p) ==
    /\ dir' = [dir EXCEPT ![p] = CreateInode(s, p)]
    /\ inodes' = [inodes EXCEPT ![CreateInode(s, p)] = <<>>]

\* os.Remove that empties the upload directory
OsRemoveAll(d, p) == [q \in DOMAIN d |-> 0]

\* os.Remove(p): unlinks the path, open handles keep the inode
OsRemove(d, p) == [d EXCEPT ![p] = 0]

\* a Close that leaves the file open
ClosedLeftOpen(f) == f

\* file.Close(); closing a closed file only returns an error nobody reads
Closed(f) == IF f.isNil THEN f ELSE [f EXCEPT !.open = FALSE]

\* file.Write(bytes) that writes the first n bytes through handle f; on a
\* nil or closed *os.File it writes nothing
FileWrite(f, bytes, n) ==
    IF f.isNil \/ ~f.open THEN inodes
    ELSE [inodes EXCEPT ![f.ino] = WriteAt(@, f.off, SubSeq(bytes, 1, n))]

\* a write that moves the offset by one byte at least
AdvancedAtLeastOne(f, n) == IF f.isNil THEN f ELSE [f EXCEPT !.off = @ + Max(n, 1)]

\* the handle after a write of n bytes
Advanced(f, n) == IF f.isNil THEN f ELSE [f EXCEPT !.off = @ + n]

Call(op, path, ok) == [op |-> op, path |-> path, ok |-> ok]

(***************************************************************************)
(* The transport.                                                          *)
(***************************************************************************)
\* the chunks among the messages the handler has read
RECURSIVE ChunksOf(_)
ChunksOf(msgs) ==
    IF msgs = <<>> THEN <<>>
    ELSE IF Head(msgs).kind = "chunk"
         THEN <<Head(msgs).chunk>> \o ChunksOf(Tail(msgs))
         ELSE ChunksOf(Tail(msgs))

\* digest strings a client may put in finish_commit: the digest of the
\* chunks it sent, the same in upper case, the empty string, and the
\* digest of other data
ClaimedDigests(s) ==
    {Sha256Hex(Concat(ChunksOf(handled[s]))),
     ToUpper(Sha256Hex(Concat(ChunksOf(handled[s])))),
     <<>>,
     Sha256Hex(<<0, 1, 1, 0>>)}

\* the messages the client may send next: the next message of its script
\* when it follows one, else any message
Inbound(s) ==
    IF cPc # "off"
    THEN {cSent[i] : i \in {received[s] + 1} \cap DOMAIN cSent}
    ELSE IF client[s].script # <<>>
    THEN {client[s].script[i] : i \in {Len(handled[s]) + 1} \cap DOMAIN client[s].script}
    ELSE {MetadataMsg(f) : f \in client[s].filenames}
            \cup {ChunkMsg(c) : c \in IF chunksLeft[s] > 0 THEN client[s].chunks ELSE {}}
            \cup {FinishCommitMsg(d) : d \in ClaimedDigests(s)}
            \cup {EmptyMsg}

\* the transport cancels the call's context (client gone, deadline)
Cancel(s) ==
    /\ pc[s] \in {"recv", "switch"}
    /\ ~ctxDone[s]
    /\ ctxDone' = [ctxDone EXCEPT ![s] = TRUE]
    /\ UNCHANGED <<pc, msg, file, filename, totalSize, hasher, result,
                   chunksLeft, handled, accepted, calls>>
    /\ UNCHANGED <<fsVars, auxVars>>

(***************************************************************************)
(* Server.Upload.                                                          *)
(***************************************************************************)
\* a return that records res and goes on with the receive loop
ReturnAndContinue(s, res, cs) ==
    /\ pc' = [pc EXCEPT ![s] = "recv"]
    /\ result' = [result EXCEPT ![s] = res]
    /\ calls' = [calls EXCEPT ![s] = cs]

\* return res after the calls cs; the deferred file.Close() of line 80
\* runs when file is set
Return(s, res, cs) ==
    /\ pc' = [pc EXCEPT ![s] = "done"]
    /\ result' = [result EXCEPT ![s] = res]
    /\ calls' = [calls EXCEPT ![s] =
                   IF file[s].isNil THEN cs
                   ELSE Append(cs, Call("close", SafePath(s),
                                        \A i \in 1..Len(cs) : cs[i].op # "close"))]

\* lines 50-62: a message arrives, the context is not done, req is the message
Receive(s) ==
    /\ pc[s] = "recv"
    /\ ~ctxDone[s]
    /\ \E m \in Inbound(s) :
          /\ msg' = [msg EXCEPT ![s] = m]
          /\ handled' = [handled EXCEPT ![s] = Append(@, m)]
          /\ chunksLeft' = [chunksLeft EXCEPT ![s] =
                              IF m.kind = "chunk" THEN @ - 1 ELSE @]
    /\ received' = [received EXCEPT ![s] = @ + 1]
    /\ pc' = [pc EXCEPT ![s] = "switch"]
    /\ UNCHANGED <<file, filename, totalSize, hasher, ctxDone, result,
                   accepted, calls>>
    /\ UNCHANGED <<fsVars, restVars>>

\* a cleanup that removes the file and then closes it
CleanupCallsRemoveFirst(s) ==
    <<Call("remove", SafePath(s), Exists(dir, SafePath(s))),
      Call("close", SafePath(s), TRUE)>>

\* the calls of a cleanup, lines 55-56 and 108-109: file.Close(), then
\* os.Remove of the resolved path
CleanupCalls(s) ==
    <<Call("close", SafePath(s), TRUE),
      Call("remove", SafePath(s), Exists(dir, SafePath(s)))>>

\* a cancellation branch that never cleans up
CleanupNever(s) == FALSE

\* line 54
CleanupNeeded(s) == ~file[s].isNil

\* what the ctx.Done() branch leaves of the directory, lines 54-57
CancelCleanup(s) == IF CleanupNeeded(s) THEN OsRemove(dir, SafePath(s)) ELSE dir

\* lines 50-58: a message arrives and the context is done; the message is
\* not looked at
CtxDone(s) ==
    /\ pc[s] = "recv"
    /\ ctxDone[s]
    /\ Inbound(s) # {}
    /\ received' = [received EXCEPT ![s] = @ + 1]
    /\ dir' = CancelCleanup(s)
    /\ file' = [file EXCEPT ![s] = Closed(@)]
    /\ Return(s, Failure("canceled", "context canceled"),
              IF CleanupNeeded(s)
              THEN calls[s] \o CleanupCalls(s)
              ELSE calls[s])
    /\ UNCHANGED <<msg, filename, totalSize, hasher, ctxDone, chunksLeft,
                   handled, accepted>>
    /\ UNCHANGED <<inodes, restVars>>

\* lines 50, 124-126: Receive returns false and stream.Err() is not nil;
\* once the context is done the transport reports its cancellation
StreamErr(s) ==
    /\ pc[s] = "recv"
    /\ file' = [file EXCEPT ![s] = Closed(@)]
    /\ Return(s, IF ctxDone[s] THEN Failure("canceled", "context canceled")
                 ELSE Failure("stream_error", "stream error"),
              calls[s])
    /\ UNCHANGED <<msg, filename, totalSize, hasher, ctxDone, chunksLeft,
                   handled, accepted>>
    /\ UNCHANGED <<fsVars, auxVars>>

\* a handler that takes the end of the stream for the commit
StreamClosedCommits(s) ==
    /\ pc[s] = "recv"
    /\ file' = [file EXCEPT ![s] = Closed(@)]
    /\ Return(s, UploadResponse("ok", totalSize[s], FALSE), calls[s])
    /\ UNCHANGED <<msg, filename, totalSize, hasher, ctxDone, chunksLeft,
                   handled, accepted>>
    /\ UNCHANGED <<fsVars, auxVars>>

\* lines 50, 124-128: the client closed the stream
StreamClosed(s) ==
    /\ pc[s] = "recv"
    /\ file' = [file EXCEPT ![s] = Closed(@)]
    /\ Return(s, Failure("invalid_argument", "stream closed without commit"), calls[s])
    /\ UNCHANGED <<msg, filename, totalSize, hasher, ctxDone, chunksLeft,
                   handled, accepted>>
    /\ UNCHANGED <<fsVars, auxVars>>

\* a handler that does not look for an earlier metadata
MetadataNeverReceived(s) == FALSE

\* line 67
MetadataAlreadyReceived(s) == ~file[s].isNil

\* lines 66-69
MetadataDuplicate(s) ==
    /\ pc[s] = "switch"
    /\ msg[s].kind = "metadata"
    /\ MetadataAlreadyReceived(s)
    /\ file' = [file EXCEPT ![s] = Closed(@)]
    /\ Return(s, Failure("invalid_argument", "metadata already received"), calls[s])
    /\ UNCHANGED <<msg, filename, totalSize, hasher, ctxDone, chunksLeft,
                   handled, accepted>>
    /\ UNCHANGED <<fsVars, auxVars>>

\* lines 66-80, os.Create succeeds
MetadataCreate(s) ==
    /\ pc[s] = "switch"
    /\ msg[s].kind = "metadata"
    /\ ~MetadataAlreadyReceived(s)
    /\ filename' = [filename EXCEPT ![s] = sanitizeFilename(msg[s].filename)]
    /\ LET safePath == Join(uploadDir, sanitizeFilename(msg[s].filename))
       IN  /\ OsCreate(s, safePath)
           /\ file' = [file EXCEPT ![s] =
                        [isNil |-> FALSE, ino |-> CreateInode(s, safePath),
                         off |-> 0, open |-> TRUE]]
           /\ calls' = [calls EXCEPT ![s] = Append(@, Call("create", safePath, TRUE))]
    /\ pc' = [pc EXCEPT ![s] = "recv"]
    /\ UNCHANGED <<msg, totalSize, hasher, ctxDone, result, chunksLeft,
                   handled, accepted>>
    /\ UNCHANGED auxVars

\* lines 66-79, os.Create fails and file stays nil
MetadataCreateFails(s) ==
    /\ pc[s] = "switch"
    /\ msg[s].kind = "metadata"
    /\ ~MetadataAlreadyReceived(s)
    /\ filename' = [filename EXCEPT ![s] = sanitizeFilename(msg[s].filename)]
    /\ Return(s, Failure("internal", "create failed"),
              Append(calls[s],
                     Call("create", Join(uploadDir, sanitizeFilename(msg[s].filename)), FALSE)))
    /\ UNCHANGED <<msg, file, totalSize, hasher, ctxDone, chunksLeft,
                   handled, accepted>>
    /\ UNCHANGED <<fsVars, auxVars>>

CaseMetadata(s) ==
    MetadataDuplicate(s) \/ MetadataCreate(s) \/ MetadataCreateFails(s)

\* a chunk case that does not look for the file
ChunkFileUnchecked(s) == FALSE

\* line 83
ChunkWithoutFile(s) == file[s].isNil

\* lines 82-85
ChunkBeforeMetadata(s) ==
    /\ pc[s] = "switch"
    /\ msg[s].kind = "chunk"
    /\ ChunkWithoutFile(s)
    /\ Return(s, Failure("invalid_argument", "metadata must be sent first"), calls[s])
    /\ UNCHANGED <<msg, file, filename, totalSize, hasher, ctxDone, chunksLeft,
                   handled, accepted>>
    /\ UNCHANGED <<fsVars, auxVars>>

\* a handler that feeds the chunk to the hasher twice
HasherWriteTwice(h, chunk) == HashWrite(HashWrite(h, chunk), chunk)

\* line 91
HasherWrite(h, chunk) == HashWrite(h, chunk)

\* a counter of chunks instead of bytes
AddSizeOne(size, chunk) == size + 1

\* line 92
AddSize(size, chunk) == size + Len(chunk)

\* lines 82-92, file.Write succeeds
ChunkWrite(s) ==
    /\ pc[s] = "switch"
    /\ msg[s].kind = "chunk"
    /\ ~ChunkWithoutFile(s)
    /\ inodes' = FileWrite(file[s], msg[s].chunk, Len(msg[s].chunk))
    /\ file' = [file EXCEPT ![s] = Advanced(@, Len(msg[s].chunk))]
    /\ hasher' = [hasher EXCEPT ![s] = HasherWrite(@, msg[s].chunk)]
    /\ totalSize' = [totalSize EXCEPT ![s] = AddSize(@, msg[s].chunk)]
    /\ accepted' = [accepted EXCEPT ![s] = Append(@, msg[s].chunk)]
    /\ calls' = [calls EXCEPT ![s] = Append(@, Call("write", SafePath(s), TRUE))]
    /\ pc' = [pc EXCEPT ![s] = "recv"]
    /\ UNCHANGED <<msg, filename, ctxDone, result, chunksLeft, handled>>
    /\ UNCHANGED <<dir, auxVars>>

\* a write-failure return that removes the file first
WriteFailureRemoves(s) == OsRemove(dir, SafePath(s))

\* lines 88-90: file.Write fails and the handler returns at once, the
\* directory as it is
WriteFailureReturns(s) == dir

\* a handler that feeds the hasher before it looks at the write's error
WriteFailureHasherFed(s) == HasherWrite(hasher[s], msg[s].chunk)

\* lines 88-91: the return of line 89 comes before hasher.Write
WriteFailureHasher(s) == hasher[s]

\* lines 88-92: the return of line 89 comes before totalSize is advanced
WriteFailureSize(s) == totalSize[s]

\* lines 82-90, file.Write fails after n bytes of the chunk
ChunkWriteFails(s) ==
    /\ pc[s] = "switch"
    /\ msg[s].kind = "chunk"
    /\ ~ChunkWithoutFile(s)
    /\ \E n \in 0..Max(Len(msg[s].chunk) - 1, 0) :
          /\ inodes' = FileWrite(file[s], msg[s].chunk, n)
          /\ file' = [file EXCEPT ![s] = Closed(Advanced(@, n))]
    /\ Return(s, Failure("internal", "write failed"),
              Append(calls[s], Call("write", SafePath(s), FALSE)))
    /\ hasher' = [hasher EXCEPT ![s] = WriteFailureHasher(s)]
    /\ totalSize' = [totalSize EXCEPT ![s] = WriteFailureSize(s)]
    /\ UNCHANGED <<msg, filename, ctxDone, chunksLeft, handled, accepted>>
    /\ dir' = WriteFailureReturns(s)
    /\ UNCHANGED auxVars

CaseChunk(s) == ChunkBeforeMetadata(s) \/ ChunkWrite(s) \/ ChunkWriteFails(s)

\* line 95
CommitWithoutFile(s) == file[s].isNil

\* lines 94-97
CommitBeforeMetadata(s) ==
    /\ pc[s] = "switch"
    /\ msg[s].kind = "finish_commit"
    /\ CommitWithoutFile(s)
    /\ Return(s, Failure("invalid_argument", "no file data received"), calls[s])
    /\ UNCHANGED <<msg, file, filename, totalSize, hasher, ctxDone, chunksLeft,
                   handled, accepted>>
    /\ UNCHANGED <<fsVars, auxVars>>

\* line 100
serverHash(s) == EncodeToString(HashSum(hasher[s]))

\* line 101
clientHash(s) == msg[s].digest

\* a comparison that ignores the case of the hex digits
HashMismatchFold(s) == ToUpper(serverHash(s)) # ToUpper(clientHash(s))

\* line 106
HashMismatch(s) == serverHash(s) # clientHash(s)

\* a mismatch branch without os.Remove
MismatchCleanupNone(s) == dir

\* what the mismatch branch leaves of the directory, lines 108-109
MismatchCleanup(s) == OsRemove(dir, SafePath(s))

\* lines 94-111
CommitMismatch(s) ==
    /\ pc[s] = "switch"
    /\ msg[s].kind = "finish_commit"
    /\ ~CommitWithoutFile(s)
    /\ HashMismatch(s)
    /\ dir' = MismatchCleanup(s)
    /\ file' = [file EXCEPT ![s] = Closed(@)]
    /\ Return(s, Failure("data_loss", "checksum mismatch"),
              calls[s] \o CleanupCalls(s))
    /\ UNCHANGED <<msg, filename, totalSize, hasher, ctxDone, chunksLeft,
                   handled, accepted>>
    /\ UNCHANGED <<inodes, auxVars>>

\* lines 94-117
CommitVerified(s) ==
    /\ pc[s] = "switch"
    /\ msg[s].kind = "finish_commit"
    /\ ~CommitWithoutFile(s)
    /\ ~HashMismatch(s)
    /\ file' = [file EXCEPT ![s] = Closed(@)]
    /\ Return(s, UploadResponse("Upload successful and verified", totalSize[s], TRUE),
              calls[s])
    /\ UNCHANGED <<msg, filename, totalSize, hasher, ctxDone, chunksLeft,
                   handled, accepted>>
    /\ UNCHANGED <<fsVars, auxVars>>

CaseFinishCommit(s) ==
    CommitBeforeMetadata(s) \/ CommitMismatch(s) \/ CommitVerified(s)

\* a switch without its default case: the message is skipped
CaseDefaultIgnores(s) ==
    /\ pc[s] = "switch"
    /\ msg[s].kind = "unknown"
    /\ pc' = [pc EXCEPT ![s] = "recv"]
    /\ UNCHANGED <<msg, file, filename, totalSize, hasher, ctxDone, result,
                   chunksLeft, handled, accepted, calls>>
    /\ UNCHANGED <<fsVars, auxVars>>

\* lines 119-120
CaseDefault(s) ==
    /\ pc[s] = "switch"
    /\ msg[s].kind = "unknown"
    /\ file' = [file EXCEPT ![s] = Closed(@)]
    /\ Return(s, Failure("invalid_argument", "unknown message type"), calls[s])
    /\ UNCHANGED <<msg, filename, totalSize, hasher, ctxDone, chunksLeft,
                   handled, accepted>>
    /\ UNCHANGED <<fsVars, auxVars>>

Next ==
    \E s \in Sessions :
        \/ Cancel(s)
        \/ Receive(s)
        \/ CtxDone(s)
        \/ StreamErr(s)
        \/ StreamClosed(s)
        \/ CaseMetadata(s)
        \/ CaseChunk(s)
        \/ CaseFinishCommit(s)
        \/ CaseDefault(s)

Spec == Init /\ [][Next]_vars

(***************************************************************************)
(* Server.Upload of the server without commit message (upload.ts, lines    *)
(* 267-353): the client's digest comes in the metadata message and is      *)
(* compared when the stream ends.  Its cancellation branch (lines 279-287) *)
(* and its stream error return (lines 335-337) are those of the server     *)
(* above, its errors are plain Go errors.  file is set whenever            *)
(* metadataReceived is and the handler goes on, so the test of line 319    *)
(* never fails.                                                            *)
(***************************************************************************)
\* what the actions of this handler never touch
variantRest == <<sanVars, unaryVars, client, goVars>>

\* the files a client may have hashed before it streams
VariantFiles == {<<>>, <<0>>, <<0, 1>>}

\* digest strings a client may put in its metadata: none, or that of a file
VariantDigests == {<<>>} \cup {Sha256Hex(f) : f \in VariantFiles}

MetadataWithDigest(f, h) == [MetadataMsg(f) EXCEPT !.digest = h]

\* the end of the stream, as an entry of the messages read
EndOfStream == [NoMsg EXCEPT !.kind = "eof"]

\* the messages the client may send next
VariantInbound(s) ==
    {MetadataWithDigest(f, h) : f \in client[s].filenames, h \in VariantDigests}
        \cup {ChunkMsg(c) : c \in IF chunksLeft[s] > 0 THEN client[s].chunks ELSE {}}
        \cup {EmptyMsg}

\* a client that may send any message at any time, its chunks of one byte
\* at most
VariantClient ==
    [script |-> <<>>, filenames |-> MetaFilenames, chunks |-> {<<>>, <<0>>, <<1>>}]

VariantInit ==
    /\ InitSessions({1})
    /\ InitFs
    /\ client = [s \in Sessions |-> VariantClient]
    /\ NoSanitize
    /\ NoUnary
    /\ InitVariant
    /\ NoGoClient

\* lines 277-289: a message arrives, the context is not done
VariantReceive(s) ==
    /\ pc[s] = "recv"
    /\ ~ctxDone[s]
    /\ \E m \in VariantInbound(s) :
          /\ msg' = [msg EXCEPT ![s] = m]
          /\ handled' = [handled EXCEPT ![s] = Append(@, m)]
          /\ chunksLeft' = [chunksLeft EXCEPT ![s] =
                              IF m.kind = "chunk" THEN @ - 1 ELSE @]
    /\ received' = [received EXCEPT ![s] = @ + 1]
    /\ pc' = [pc EXCEPT ![s] = "switch"]
    /\ UNCHANGED <<file, filename, totalSize, hasher, ctxDone, result,
                   accepted, calls>>
    /\ UNCHANGED <<fsVars, variantVars, variantRest>>

\* lines 293-296
VariantMetadataDuplicate(s) ==
    /\ pc[s] = "switch"
    /\ msg[s].kind = "metadata"
    /\ metadataReceived[s]
    /\ file' = [file EXCEPT ![s] = Closed(@)]
    /\ Return(s, Failure("unknown", "metadata already received; protocol violation"),
              calls[s])
    /\ UNCHANGED <<msg, filename, totalSize, hasher, ctxDone, chunksLeft,
                   handled, accepted, received>>
    /\ UNCHANGED <<fsVars, variantVars, variantRest>>

\* lines 293-313, os.Create succeeds
VariantMetadataCreate(s) ==
    /\ pc[s] = "switch"
    /\ msg[s].kind = "metadata"
    /\ ~metadataReceived[s]
    /\ metadataReceived' = [metadataReceived EXCEPT ![s] = TRUE]
    /\ clientHashes' = [clientHashes EXCEPT ![s] = msg[s].digest]
    /\ filename' = [filename EXCEPT ![s] = sanitizeFilename(msg[s].filename)]
    /\ LET safePath == Join(uploadDir, sanitizeFilename(msg[s].filename))
       IN  /\ OsCreate(s, safePath)
           /\ file' = [file EXCEPT ![s] =
                        [isNil |-> FALSE, ino |-> CreateInode(s, safePath),
                         off |-> 0, open |-> TRUE]]
           /\ calls' = [calls EXCEPT ![s] = Append(@, Call("create", safePath, TRUE))]
    /\ pc' = [pc EXCEPT ![s] = "recv"]
    /\ UNCHANGED <<msg, totalSize, hasher, ctxDone, result, chunksLeft,
                   handled, accepted, received>>
    /\ UNCHANGED variantRest

\* lines 293-311, os.Create fails and file stays nil
VariantMetadataCreateFails(s) ==
    /\ pc[s] = "switch"
    /\ msg[s].kind = "metadata"
    /\ ~metadataReceived[s]
    /\ metadataReceived' = [metadataReceived EXCEPT ![s] = TRUE]
    /\ clientHashes' = [clientHashes EXCEPT ![s] = msg[s].digest]
    /\ filename' = [filename EXCEPT ![s] = sanitizeFilename(msg[s].filename)]
    /\ Return(s, Failure("unknown", "create failed"),
              Append(calls[s],
                     Call("create", Join(uploadDir, sanitizeFilename(msg[s].filename)), FALSE)))
    /\ UNCHANGED <<msg, file, totalSize, hasher, ctxDone, chunksLeft,
                   handled, accepted, received>>
    /\ UNCHANGED <<fsVars, variantRest>>

\* lines 315-318
VariantChunkBeforeMetadata(s) ==
    /\ pc[s] = "switch"
    /\ msg[s].kind = "chunk"
    /\ ~metadataReceived[s]
    /\ file' = [file EXCEPT ![s] = Closed(@)]
    /\ Return(s, Failure("unknown", "chunk received before metadata; protocol violation"),
              calls[s])
    /\ UNCHANGED <<msg, filename, totalSize, hasher, ctxDone, chunksLeft,
                   handled, accepted, received>>
    /\ UNCHANGED <<fsVars, variantVars, variantRest>>

\* lines 315-328, file.Write succeeds
VariantChunkWrite(s) ==
    /\ pc[s] = "switch"
    /\ msg[s].kind = "chunk"
    /\ metadataReceived[s]
    /\ ~file[s].isNil
    /\ inodes' = FileWrite(file[s], msg[s].chunk, Len(msg[s].chunk))
    /\ file' = [file EXCEPT ![s] = Advanced(@, Len(msg[s].chunk))]
    /\ hasher' = [hasher EXCEPT ![s] = HasherWrite(@, msg[s].chunk)]
    /\ totalSize' = [totalSize EXCEPT ![s] = AddSize(@, msg[s].chunk)]
    /\ accepted' = [accepted EXCEPT ![s] = Append(@, msg[s].chunk)]
    /\ calls' = [calls EXCEPT ![s] = Append(@, Call("write", SafePath(s), TRUE))]
    /\ pc' = [pc EXCEPT ![s] = "recv"]
    /\ UNCHANGED <<msg, filename, ctxDone, result, chunksLeft, handled, received>>
    /\ UNCHANGED <<dir, variantVars, variantRest>>

\* lines 315-326, file.Write fails after n bytes of the chunk
VariantChunkWriteFails(s) ==
    /\ pc[s] = "switch"
    /\ msg[s].kind = "chunk"
    /\ metadataReceived[s]
    /\ ~file[s].isNil
    /\ \E n \in 0..Max(Len(msg[s].chunk) - 1, 0) :
          /\ inodes' = FileWrite(file[s], msg[s].chunk, n)
          /\ file' = [file EXCEPT ![s] = Closed(Advanced(@, n))]
    /\ Return(s, Failure("unknown", "write failed"),
              Append(calls[s], Call("write", SafePath(s), FALSE)))
    /\ UNCHANGED <<msg, filename, totalSize, hasher, ctxDone, chunksLeft,
                   handled, accepted, received>>
    /\ UNCHANGED <<dir, variantVars, variantRest>>

\* lines 330-331
VariantDefault(s) ==
    /\ pc[s] = "switch"
    /\ msg[s].kind = "unknown"
    /\ file' = [file EXCEPT ![s] = Closed(@)]
    /\ Return(s, Failure("unknown", "unknown message type"), calls[s])
    /\ UNCHANGED <<msg, filename, totalSize, hasher, ctxDone, chunksLeft,
                   handled, accepted, received>>
    /\ UNCHANGED <<fsVars, variantVars, variantRest>>

\* lines 277, 335-341: the client closed the stream before any metadata
VariantNoMetadata(s) ==
    /\ pc[s] = "recv"
    /\ ~metadataReceived[s]
    /\ handled' = [handled EXCEPT ![s] = Append(@, EndOfStream)]
    /\ file' = [file EXCEPT ![s] = Closed(@)]
    /\ Return(s, Failure("unknown", "no metadata received"), calls[s])
    /\ UNCHANGED <<msg, filename, totalSize, hasher, ctxDone, chunksLeft,
                   accepted, received>>
    /\ UNCHANGED <<fsVars, variantVars, variantRest>>

\* a comparison that lets an empty client digest pass
VariantHashOkOrEmpty(s) == clientHashes[s] = <<>> \/ serverHash(s) = clientHashes[s]

\* lines 343-344
VariantHashOk(s) == serverHash(s) = clientHashes[s]

\* lines 277, 335-352: the client closed the stream after its metadata
VariantStreamEnd(s) ==
    /\ pc[s] = "recv"
    /\ metadataReceived[s]
    /\ handled' = [handled EXCEPT ![s] = Append(@, EndOfStream)]
    /\ file' = [file EXCEPT ![s] = Closed(@)]
    /\ Return(s, UploadResponse("ok", totalSize[s], VariantHashOk(s)), calls[s])
    /\ UNCHANGED <<msg, filename, totalSize, hasher, ctxDone, chunksLeft,
                   accepted, received>>
    /\ UNCHANGED <<fsVars, variantVars, variantRest>>

VariantNext ==
    \E s \in Sessions :
        \/ Cancel(s)
        \/ VariantReceive(s)
        \/ CtxDone(s)
        \/ StreamErr(s)
        \/ VariantMetadataDuplicate(s)
        \/ VariantMetadataCreate(s)
        \/ VariantMetadataCreateFails(s)
        \/ VariantChunkBeforeMetadata(s)
        \/ VariantChunkWrite(s)
        \/ VariantChunkWriteFails(s)
        \/ VariantDefault(s)
        \/ VariantNoMetadata(s)
        \/ VariantStreamEnd(s)

VariantSpec == VariantInit /\ [][VariantNext]_vars

(***************************************************************************)
(* Concurrent sessions: the server runs one Server.Upload per stream, all  *)
(* on the same upload directory.  Session 1 runs alone or beside session   *)
(* 2; each client has its own chunk, and the client of session 2 may pick  *)
(* the filename of session 1 or another one.                               *)
(***************************************************************************)
ConcClient(s) ==
    [script |-> <<>>,
     filenames |-> IF s = 1 THEN {<<"a">>} ELSE {<<"a">>, <<".", ".">>},
     chunks |-> IF s = 1 THEN {<<0>>} ELSE {<<1, 1>>}]

ConcInit ==
    /\ \E running \in {{1}, Sessions} : InitSessions(running)
    /\ InitFs
    /\ client = [s \in Sessions |-> ConcClient(s)]
    /\ NoSanitize
    /\ NoUnary
    /\ InitVariant
    /\ NoGoClient

ConcSpec == ConcInit /\ [][Next]_vars

(***************************************************************************)
(* Server.UploadFile, the unary upload (lines 131-158), run on its own     *)
(* copy of the upload directory beside a streaming session whose client    *)
(* sends the same filename, the same data as one chunk, and the same       *)
(* digest in its commit.                                                   *)
(***************************************************************************)
\* digest strings a client may put in the request: that of the data, the
\* empty string, and the digest of other data
UnaryDigests(d) == {Sha256Hex(d), <<>>, Sha256Hex(<<0, 1, 1, 0>>)}

\* the messages the streaming client sends for the request req
StreamingOf(req) ==
    <<MetadataMsg(req.filename), ChunkMsg(req.data), FinishCommitMsg(req.sha256)>>

UnaryInit ==
    /\ InitSessions({1})
    /\ InitFs
    /\ \E f \in MetaFilenames, d \in Chunks :
          \E h \in UnaryDigests(d) :
              /\ uReq = UploadFileRequest(f, d, h)
              /\ client = [s \in Sessions |->
                             [AnyClient EXCEPT !.script = StreamingOf(uReq)]]
    /\ uResult = NoResult
    /\ udir = dir
    /\ uinodes = inodes
    /\ NoSanitize
    /\ InitVariant
    /\ NoGoClient

\* line 136
UnaryPath == Join(uploadDir, sanitizeFilename(uReq.filename))

\* lines 141-144
UnaryHashOk == Sha256Hex(uReq.data) = uReq.sha256

\* os.WriteFile(safePath, data, 0644) writing the first n bytes of data:
\* O_CREATE|O_TRUNC, an existing file keeps its inode
WriteFileInode == IF Exists(udir, UnaryPath) THEN udir[UnaryPath] ELSE NewInode(1)

WriteFile(n) ==
    /\ udir' = [udir EXCEPT ![UnaryPath] = WriteFileInode]
    /\ uinodes' = [uinodes EXCEPT ![WriteFileInode] = SubSeq(uReq.data, 1, n)]

\* lines 135-157, os.WriteFile succeeds
UploadFile ==
    /\ uReq.set
    /\ uResult = NoResult
    /\ WriteFile(Len(uReq.data))
    /\ uResult' = UploadResponse("ok", Len(uReq.data), UnaryHashOk)
    /\ UNCHANGED <<uReq, sessVars, fsVars, sanVars, variantVars, client, received, goVars>>

\* lines 135-151, os.WriteFile fails: the file could not be opened, or it
\* was opened and the write stopped after n bytes
UploadFileFails ==
    /\ uReq.set
    /\ uResult = NoResult
    /\ \/ UNCHANGED <<udir, uinodes>>
       \/ \E n \in 0..Max(Len(uReq.data) - 1, 0) : WriteFile(n)
    /\ uResult' = Failure("internal", "write failed")
    /\ UNCHANGED <<uReq, sessVars, fsVars, sanVars, variantVars, client, received, goVars>>

UnaryNext ==
    \/ UploadFile
    \/ UploadFileFails
    \/ Receive(1)
    \/ MetadataCreate(1)
    \/ MetadataCreateFails(1)
    \/ ChunkWrite(1)
    \/ ChunkWriteFails(1)
    \/ CommitMismatch(1)
    \/ CommitVerified(1)

UnarySpec == UnaryInit /\ [][UnaryNext]_vars

(***************************************************************************)
(* The Go streaming client (cmd/client/main.go, lines 22-114), on its own: *)
(* it sends the metadata, reads the file through a TeeReader into the      *)
(* hasher and sends what each Read returned as a chunk, sends the commit   *)
(* with the hasher's digest, and closes the stream.  A Read returns 1 to   *)
(* chunkSize bytes, with io.EOF at once or on the next call; log.Fatalf    *)
(* ends the process.                                                       *)
(***************************************************************************)
Min(a, b) == IF a <= b THEN a ELSE b

\* the files the client may be given
ClientFiles == UNION {[1..n -> Byte] : n \in 0..MaxFileLen}

\* the paths the client may be given
ClientPaths == {<<"a">>, <<".", ".", "/", "a">>, <<"b">>}

ClientInit ==
    /\ InitSessions({})
    /\ InitFs
    /\ client = [s \in Sessions |-> AnyClient]
    /\ NoSanitize
    /\ NoUnary
    /\ InitVariant
    /\ cPc = "metadata"
    /\ cPath \in ClientPaths
    /\ cFile \in ClientFiles
    /\ cOffset = 0
    /\ cHasher = HashNew
    /\ cTotalBytes = 0
    /\ cSent = <<>>
    /\ cResp = NoResult

\* what the client actions never touch
clientRest == <<sessVars, fsVars, sanVars, unaryVars, variantVars, client, received>>

\* lines 53-64
ClientSendMetadata ==
    /\ cPc = "metadata"
    /\ cSent' = Append(cSent, MetadataMsg(Base(cPath)))
    /\ cPc' = "read"
    /\ UNCHANGED <<cPath, cFile, cOffset, cHasher, cTotalBytes, cResp, clientRest>>

\* the bytes a Read of n bytes returns
ReadBytes(n) == SubSeq(cFile, cOffset + 1, cOffset + n)

\* a loop that sends the whole buffer, not the bytes read
ChunkOfBufWhole(n) == SubSeq(ReadBytes(n) \o [i \in 1..chunkSize |-> 0], 1, chunkSize)

\* line 77: buf[:n]
ChunkOfBuf(n) == ReadBytes(n)

\* lines 72-90: Read returns n > 0 bytes, hashed by the TeeReader, and the
\* chunk is sent; with io.EOF the loop ends, which Read may report with the
\* last bytes
ClientSendChunk ==
    /\ cPc = "read"
    /\ \E n \in 1..Min(chunkSize, Len(cFile) - cOffset) :
          /\ cHasher' = HashWrite(cHasher, ReadBytes(n))
          /\ cSent' = Append(cSent, ChunkMsg(ChunkOfBuf(n)))
          /\ cTotalBytes' = cTotalBytes + n
          /\ cOffset' = cOffset + n
          /\ \/ cPc' = "read"
             \/ cOffset + n = Len(cFile) /\ cPc' = "commit"
    /\ UNCHANGED <<cPath, cFile, cResp, clientRest>>

\* lines 72-86: Read returns 0 bytes and io.EOF
ClientReadEOF ==
    /\ cPc = "read"
    /\ cOffset = Len(cFile)
    /\ cPc' = "commit"
    /\ UNCHANGED <<cPath, cFile, cOffset, cHasher, cTotalBytes, cSent, cResp, clientRest>>

\* lines 73-89: Read fails, after n bytes that were hashed and are sent
\* first when n > 0
ClientReadFails ==
    /\ cPc = "read"
    /\ \E n \in 0..Min(chunkSize, Len(cFile) - cOffset) :
          /\ cHasher' = HashWrite(cHasher, ReadBytes(n))
          /\ cSent' = IF n > 0 THEN Append(cSent, ChunkMsg(ChunkOfBuf(n))) ELSE cSent
          /\ cTotalBytes' = cTotalBytes + n
          /\ cOffset' = cOffset + n
    /\ cPc' = "fatal"
    /\ UNCHANGED <<cPath, cFile, cResp, clientRest>>

\* lines 61-63, 79-81, 102-104: stream.Send fails; in the loop the bytes
\* were read and hashed before
ClientSendFails ==
    /\ \/ /\ cPc \in {"metadata", "commit"}
          /\ UNCHANGED <<cOffset, cHasher>>
       \/ /\ cPc = "read"
          /\ \E n \in 1..Min(chunkSize, Len(cFile) - cOffset) :
                /\ cHasher' = HashWrite(cHasher, ReadBytes(n))
                /\ cOffset' = cOffset + n
    /\ cPc' = "fatal"
    /\ UNCHANGED <<cPath, cFile, cTotalBytes, cSent, cResp, clientRest>>

\* a client that sends its digest in upper-case hex digits
ClientHashUpper == ToUpper(EncodeToString(HashSum(cHasher)))

\* line 94
ClientHash == EncodeToString(HashSum(cHasher))

\* lines 94-104
ClientSendCommit ==
    /\ cPc = "commit"
    /\ cSent' = Append(cSent, FinishCommitMsg(ClientHash))
    /\ cPc' = "close"
    /\ UNCHANGED <<cPath, cFile, cOffset, cHasher, cTotalBytes, cResp, clientRest>>

\* line 107: CloseAndReceive closes the sending side, then waits
ClientClose ==
    /\ cPc = "close"
    /\ cPc' = "wait"
    /\ UNCHANGED <<cPath, cFile, cOffset, cHasher, cTotalBytes, cSent, cResp, clientRest>>

ClientNext ==
    \/ ClientSendMetadata
    \/ ClientSendChunk
    \/ ClientReadEOF
    \/ ClientReadFails
    \/ ClientSendFails
    \/ ClientSendCommit
    \/ ClientClose

ClientSpec == ClientInit /\ [][ClientNext]_vars

(***************************************************************************)
(* The Go client uploading to Server.Upload over a reliable, in-order      *)
(* stream: the handler receives the messages the client has sent, in the   *)
(* order sent, and the client's CloseAndReceive returns what the handler   *)
(* returned.  No cancellation, and os.Create and file.Write succeed.  The  *)
(* client and the handler are two running processes: each takes its next   *)
(* step when it has one.                                                   *)
(***************************************************************************)
E2EInit ==
    /\ InitSessions({1})
    /\ InitFs
    /\ client = [s \in Sessions |-> AnyClient]
    /\ NoSanitize
    /\ NoUnary
    /\ InitVariant
    /\ cPc = "metadata"
    /\ cPath \in ClientPaths
    /\ cFile \in ClientFiles
    /\ cOffset = 0
    /\ cHasher = HashNew
    /\ cTotalBytes = 0
    /\ cSent = <<>>
    /\ cResp = NoResult

\* lines 107-113: CloseAndReceive returns the handler's response, or its
\* error, which is fatal
ClientReceiveResponse ==
    /\ cPc = "wait"
    /\ pc[1] = "done"
    /\ cResp' = result[1]
    /\ cPc' = IF result[1].kind = "ok" THEN "done" ELSE "fatal"
    /\ UNCHANGED <<cPath, cFile, cOffset, cHasher, cTotalBytes, cSent, clientRest>>

E2EClient ==
    \/ ClientSendMetadata
    \/ ClientSendChunk
    \/ ClientReadEOF
    \/ ClientSendCommit
    \/ ClientClose
    \/ ClientReceiveResponse

E2EServer ==
    \/ Receive(1)
    \/ MetadataCreate(1)
    \/ ChunkWrite(1)
    \/ CommitVerified(1)

E2ENext == E2EClient \/ E2EServer

E2ESpec == E2EInit /\ [][E2ENext]_vars /\ WF_vars(E2EClient) /\ WF_vars(E2EServer)

(***************************************************************************)
(* sanitizeFilename on its own: one call on any filename of the bounded    *)
(* alphabet.                                                               *)
(***************************************************************************)
SanInit ==
    /\ InitSessions({})
    /\ dir = [p \in Paths |-> 0]
    /\ inodes = [i \in InodeIds |-> <<>>]
    /\ client = [s \in Sessions |-> AnyClient]
    /\ NoUnary
    /\ InitVariant
    /\ NoGoClient
    /\ sanIn \in Filenames
    /\ sanOut = <<>>
    /\ sanDone = FALSE

Sanitize ==
    /\ ~sanDone
    /\ sanOut' = sanitizeFilename(sanIn)
    /\ sanDone' = TRUE
    /\ UNCHANGED <<sanIn, sessVars, fsVars, unaryVars, variantVars, client, received, goVars>>

SanNext == Sanitize

SanSpec == SanInit /\ [][SanNext]_vars

(***************************************************************************)
(* Properties of Server.Upload, checked under Spec (one session).          *)
(***************************************************************************)
Done(s) == pc[s] = "done"

RECURSIVE SumLen(_)
SumLen(chunks) ==
    IF chunks = <<>> THEN 0 ELSE Len(Head(chunks)) + SumLen(Tail(chunks))

\* no os.Create and no file.Write of the session has failed
NoSinkFailure(s) ==
    \A i \in 1..Len(calls[s]) : calls[s][i].op \in {"create", "write"} => calls[s][i].ok

\* the handler has read metadata, then only chunks, then a commit
MetadataChunksCommit(s) ==
    /\ Len(handled[s]) >= 2
    /\ handled[s][1].kind = "metadata"
    /\ handled[s][Len(handled[s])].kind = "finish_commit"
    /\ \A i \in 2..(Len(handled[s]) - 1) : handled[s][i].kind = "chunk"

\* C1: Upload returns success (hash_ok = true) only when the digest string
\* of the commit message equals the digest, computed in one pass, of the
\* concatenation in receipt order of the chunks the session accepted; a
\* commit whose digest differs is never answered with success.
C1_SuccessOnlyOnMatchingDigest ==
    \A s \in Sessions :
        result[s].kind = "ok" =>
            /\ result[s].hashOk
            /\ msg[s].kind = "finish_commit"
            /\ msg[s].digest = Sha256Hex(Concat(accepted[s]))

C1_Witness ==
    \E s \in Sessions :
        /\ result[s].kind = "ok"
        /\ Len(accepted[s]) >= 2
        /\ Len(Concat(accepted[s])) >= 3

\* C2: once Upload has returned from a commit whose digest differs from the
\* digest of the accepted chunks, the outcome is the data-loss failure and
\* no file exists at the session's path, whatever was written before.
C2_MismatchDeletesFile ==
    \A s \in Sessions :
        (/\ Done(s)
         /\ msg[s].kind = "finish_commit"
         /\ ~file[s].isNil
         /\ msg[s].digest # Sha256Hex(Concat(accepted[s])))
        => /\ result[s] = Failure("data_loss", "checksum mismatch")
           /\ ~Exists(dir, SafePath(s))

C2_Witness ==
    \E s \in Sessions :
        /\ result[s].kind = "data_loss"
        /\ Len(accepted[s]) >= 2
        /\ msg[s].digest = ToUpper(Sha256Hex(Concat(accepted[s])))

\* C3: without cancellation and without a failing sink call, a session that
\* reads metadata, chunks c1..cn (n >= 0) and a commit carrying the digest
\* of c1 ++ ... ++ cn returns success with size = the sum of the chunk
\* lengths and hash_ok = true, and the file at its path holds exactly
\* c1 ++ ... ++ cn.
C3_MatchingCommitSucceeds ==
    \A s \in Sessions :
        (/\ Done(s)
         /\ ~ctxDone[s]
         /\ NoSinkFailure(s)
         /\ MetadataChunksCommit(s)
         /\ msg[s].digest = Sha256Hex(Concat(ChunksOf(handled[s]))))
        => /\ result[s] = UploadResponse("Upload successful and verified",
                                         SumLen(ChunksOf(handled[s])), TRUE)
           /\ SafePath(s) = Join(uploadDir, sanitizeFilename(handled[s][1].filename))
           /\ Exists(dir, SafePath(s))
           /\ Content(dir, inodes, SafePath(s)) = Concat(ChunksOf(handled[s]))

C3_Witness ==
    \E s \in Sessions :
        /\ result[s].kind = "ok"
        /\ ~ctxDone[s]
        /\ result[s].size = 3
        /\ Len(handled[s]) = 4

\* C4: when the first message a session handles is a chunk or a commit, the
\* session handles nothing else and returns the invalid-argument (protocol
\* violation) failure; it has no file handle, has made no file system call
\* and no file's contents have changed.
C4_ChunkOrCommitFirst ==
    \A s \in Sessions :
        (handled[s] # <<>> /\ handled[s][1].kind \in {"chunk", "finish_commit"})
        => /\ Len(handled[s]) = 1
           /\ pc[s] \in {"switch", "done"}
           /\ Done(s) => result[s].kind = "invalid_argument"
           /\ file[s].isNil
           /\ calls[s] = <<>>
           /\ \A p \in Paths : Exists(dir, p) => Content(dir, inodes, p) = StaleContent

C4_Witness ==
    \E s \in Sessions :
        /\ Done(s)
        /\ handled[s] = <<ChunkMsg(<<0, 1>>)>>
        /\ result[s] = Failure("invalid_argument", "metadata must be sent first")

\* C5: a session whose context is cancelled after its file was opened and
\* before it returned ends with the cancellation failure and leaves no file
\* at its path.
C5_CancelledLeavesNoFile ==
    \A s \in Sessions :
        (Done(s) /\ ctxDone[s] /\ ~file[s].isNil)
        => /\ result[s].kind = "canceled"
           /\ ~Exists(dir, SafePath(s))

\* C6: when a session with an open file returns the protocol violation of a
\* duplicate metadata or of an unknown or empty message, no file exists at
\* its path.
C6_ViolationRetainsNothing ==
    \A s \in Sessions :
        (/\ Done(s)
         /\ ~file[s].isNil
         /\ result[s].kind = "invalid_argument"
         /\ result[s].message \in {"metadata already received", "unknown message type"})
        => ~Exists(dir, SafePath(s))

\* C7: a metadata message handled after the first one makes the session
\* return the protocol violation "metadata already received"; a session
\* calls os.Create at most once, and after the second metadata the path is
\* still the one of the first metadata, names the inode of the handle and
\* holds the accepted chunks.
C7_DuplicateMetadata ==
    \A s \in Sessions :
        /\ Cardinality({i \in 1..Len(calls[s]) : calls[s][i].op = "create"}) <= 1
        /\ \A k \in 2..Len(handled[s]) :
              handled[s][k].kind = "metadata"
              => /\ k = Len(handled[s])
                 /\ pc[s] \in {"switch", "done"}
                 /\ Done(s) => result[s] = Failure("invalid_argument",
                                                   "metadata already received")
                 /\ filename[s] = sanitizeFilename(handled[s][1].filename)
                 /\ Exists(dir, SafePath(s))
                 /\ dir[SafePath(s)] = file[s].ino
                 /\ Content(dir, inodes, SafePath(s)) = Concat(accepted[s])

C7_Witness ==
    \E s \in Sessions :
        /\ Done(s)
        /\ result[s].message = "metadata already received"
        /\ Len(accepted[s]) >= 1
        /\ sanitizeFilename(msg[s].filename) # filename[s]

\* C8: in every state the byte counter of a session is the sum of the
\* lengths of the chunks it has accepted so far, and no step decreases it.
C8_BytesWritten ==
    /\ [](\A s \in Sessions : totalSize[s] = SumLen(accepted[s]))
    /\ [][\A s \in Sessions : totalSize'[s] >= totalSize[s]]_vars

C8_Witness ==
    \E s \in Sessions :
        /\ Len(accepted[s]) = 2
        /\ totalSize[s] = 3

\* C9: between two messages of a session with an open file, the accepted
\* chunks are the chunks handled, in order, the file holds exactly their
\* concatenation, and the digest string the hasher yields is the digest of
\* that concatenation hashed in one pass, however it was cut into chunks.
C9_OrderPreserved ==
    \A s \in Sessions :
        pc[s] \in {"recv", "switch"} =>
            IF file[s].isNil
            THEN accepted[s] = <<>> /\ hasher[s] = HashNew
            ELSE /\ accepted[s] = ChunksOf(IF pc[s] = "switch"
                                           THEN SubSeq(handled[s], 1, Len(handled[s]) - 1)
                                           ELSE handled[s])
                 /\ inodes[file[s].ino] = Concat(accepted[s])
                 /\ HashSum(hasher[s]) = HashSum(HashWrite(HashNew, Concat(accepted[s])))
                 /\ serverHash(s) = Sha256Hex(Concat(accepted[s]))

C9_Witness ==
    \E s \in Sessions :
        /\ pc[s] = "recv"
        /\ accepted[s] = <<<<>>, <<1, 0>>>>

(***************************************************************************)
(* Properties of sanitizeFilename, checked under SanSpec.                  *)
(***************************************************************************)
\* C10: for every filename, sanitizeFilename returns a name without "/"
\* and without "\", which is not empty, not "." and not "..".
C10_SanitizedName ==
    sanDone =>
        /\ \A i \in 1..Len(sanOut) : sanOut[i] \notin {"/", "\\"}
        /\ sanOut \notin {<<>>, <<".">>, <<".", ".">>}

C10_Witness ==
    /\ sanDone
    /\ sanIn = <<".", ".", "\\", ".">>
    /\ sanOut = <<".", ".", "_", ".">>

\* the part of a name after position k
NameAfter(name, k) == SubSeq(name, k + 1, Len(name))

\* C11 (as stated): the sanitized name is that of the final segment alone,
\* whether the segments before it end in a forward slash or in a back slash.
C11_FinalSegmentEitherSlash ==
    sanDone =>
        \A k \in 1..Len(sanIn) :
            /\ sanIn[k] \in {"/", "\\"}
            /\ NameAfter(sanIn, k) # <<>>
            /\ \A i \in k + 1..Len(sanIn) : sanIn[i] \notin {"/", "\\"}
            => sanOut = sanitizeFilename(NameAfter(sanIn, k))

\* C11 (amended): the sanitized name is that of the part after any forward
\* slash that has a later character other than a forward slash; a name
\* without forward slashes is kept whole, its back slashes replaced by "_",
\* unless it is empty, "." or "..".
C11_FinalSegmentForwardSlash ==
    sanDone =>
        /\ \A k \in 1..Len(sanIn) :
               /\ sanIn[k] = "/"
               /\ \E i \in k + 1..Len(sanIn) : sanIn[i] # "/"
               => sanOut = sanitizeFilename(NameAfter(sanIn, k))
        /\ /\ \A i \in 1..Len(sanIn) : sanIn[i] # "/"
           /\ sanIn \notin {<<>>, <<".">>, <<".", ".">>}
           => sanOut = ReplaceAll(sanIn, "\\", "_")

C11_Witness ==
    /\ sanDone
    /\ sanIn = <<".", ".", "/", "a">>
    /\ sanOut = <<"a">>

(***************************************************************************)
(* Properties of the paths Server.Upload touches, checked under Spec.      *)
(***************************************************************************)
\* the path resolved from the first message the handler read
ResolvedPath(s) == Join(uploadDir, sanitizeFilename(handled[s][1].filename))

\* the files a step may change: those at the paths the sessions hold
HeldPaths == {Join(uploadDir, filename'[s]) : s \in Sessions}

\* C12: every os.Create, file.Write and os.Remove of a session is made on
\* the upload directory joined with the sanitized filename of its metadata
\* message; that filename is set once and never changes; and no step
\* creates, changes or removes the file at any other path.
C12_OnePath ==
    /\ [](\A s \in Sessions : calls[s] # <<>> =>
            /\ handled[s] # <<>>
            /\ handled[s][1].kind = "metadata"
            /\ SafePath(s) = ResolvedPath(s)
            /\ \A i \in 1..Len(calls[s]) : calls[s][i].path = SafePath(s))
    /\ [][\A s \in Sessions :
            /\ filename[s] # <<>> => filename'[s] = filename[s]
            /\ \A p \in Paths \ HeldPaths :
                  /\ dir'[p] = dir[p]
                  /\ Exists(dir, p) => inodes'[dir[p]] = inodes[dir[p]]]_vars

C12_Witness ==
    /\ Done(1)
    /\ handled[1] # <<>>
    /\ handled[1][1] = MetadataMsg(<<".", ".", "/", "a">>)
    /\ \E i, j, k \in 1..Len(calls[1]) :
          /\ calls[1][i].op = "create"
          /\ calls[1][j].op = "write"
          /\ calls[1][k].op = "remove"
    /\ Exists(dir, PathList[3])
    /\ Content(dir, inodes, PathList[3]) = StaleContent

(***************************************************************************)
(* Properties of the returns of Server.Upload, checked under Spec.         *)
(***************************************************************************)
\* the calls of the session that failed
FailedCalls(s) == {i \in 1..Len(calls[s]) : ~calls[s][i].ok /\ calls[s][i].op \in {"create", "write"}}

\* content b is content a with bytes added at its end, or a itself
Extends(b, a) == Len(b) >= Len(a) /\ SubSeq(b, 1, Len(a)) = a

\* C13: when os.Create or file.Write fails the handler returns at once with
\* CodeInternal; the failed call is its only failed call and its last one
\* but the deferred close; nothing is removed: the directory is as before
\* the call and every file holds what it held, the written file possibly
\* with the bytes the failed write got through.
C13_SinkFailureLeavesFile ==
    /\ [](\A s \in Sessions : FailedCalls(s) # {} =>
            /\ Done(s)
            /\ result[s].kind = "internal"
            /\ Cardinality(FailedCalls(s)) = 1
            /\ \A i \in 1..Len(calls[s]) :
                  /\ calls[s][i].op # "remove"
                  /\ (\E j \in FailedCalls(s) : i > j) => calls[s][i].op = "close")
    /\ [][\A s \in Sessions : FailedCalls(s) = {} /\ (FailedCalls(s) # {})' =>
            /\ dir' = dir
            /\ \A i \in InodeIds : Extends(inodes'[i], inodes[i])
            /\ \A i \in InodeIds \ {file[s].ino} : inodes'[i] = inodes[i]
            /\ hasher'[s] = hasher[s]
            /\ totalSize'[s] = totalSize[s]]_vars

\* a write fails after one byte of its chunk, behind an accepted chunk
C13_Witness ==
    /\ Done(1)
    /\ result[1].kind = "internal"
    /\ accepted[1] = <<<<1, 0>>>>
    /\ calls[1][Len(calls[1]) - 1] = Call("write", SafePath(1), FALSE)
    /\ Exists(dir, SafePath(1))
    /\ Content(dir, inodes, SafePath(1)) = <<1, 0, 1>>

\* the codes of the four failures the handler constructs
CoreKinds == {"invalid_argument", "internal", "data_loss", "canceled"}

\* the last message read is a commit on an open file whose digest is not
\* that of the chunks accepted
IntegrityCause(s) ==
    /\ handled[s] # <<>>
    /\ handled[s][Len(handled[s])].kind = "finish_commit"
    /\ accepted[s] = ChunksOf(handled[s])
    /\ Len(handled[s]) = Len(accepted[s]) + 2
    /\ handled[s][Len(handled[s])].digest # Sha256Hex(Concat(accepted[s]))

\* each code is reported for its own cause only: CodeDataLoss exactly for a
\* digest mismatch, CodeInternal exactly for a failed sink call,
\* CodeCanceled only once the context is done, CodeInvalidArgument for none
\* of these
KindMatchesCause(s) ==
    /\ result[s].kind = "data_loss" <=> IntegrityCause(s) /\ FailedCalls(s) = {}
    /\ result[s].kind = "internal" <=> FailedCalls(s) # {}
    /\ result[s].kind = "canceled" => ctxDone[s] /\ ~IntegrityCause(s)
    /\ result[s].kind = "invalid_argument" =>
          /\ ~IntegrityCause(s)
          /\ \A i \in 1..Len(calls[s]) : calls[s][i].op # "remove"

Returned(s) == result[s].kind # "none"

\* C15: a session returns at most one outcome, and with it the handler is
\* over: from then on its outcome, the messages it read, its file handle,
\* hasher, byte count and file system calls never change, and the file at
\* its path is not written or removed.
C15_OneOutcome ==
    /\ [](\A s \in Sessions : Returned(s) <=> Done(s))
    /\ [][\A s \in Sessions : Returned(s) =>
            /\ result'[s] = result[s]
            /\ pc'[s] = pc[s]
            /\ msg'[s] = msg[s]
            /\ handled'[s] = handled[s]
            /\ accepted'[s] = accepted[s]
            /\ file'[s] = file[s]
            /\ hasher'[s] = hasher[s]
            /\ totalSize'[s] = totalSize[s]
            /\ calls'[s] = calls[s]
            /\ ctxDone'[s] = ctxDone[s]
            /\ (\A r \in Sessions : Returned(r) \/ pc[r] = "off") => UNCHANGED fsVars]_vars

\* a session that returned success with messages still to come
C15_Witness ==
    /\ Done(1)
    /\ result[1].kind = "ok"
    /\ chunksLeft[1] > 0
    /\ ~ctxDone[1]

\* C16: a message with no payload set is the last message the handler
\* reads: handling it returns CodeInvalidArgument, whatever was read before
\* it, and leaves the file system, the hasher, the byte count and the
\* accepted chunks as they were.
C16_UnknownMessageAborts ==
    /\ [](\A s \in Sessions : \A i \in 1..Len(handled[s]) :
            handled[s][i].kind = "unknown" =>
                /\ i = Len(handled[s])
                /\ pc[s] \in {"switch", "done"}
                /\ Done(s) => /\ result[s].kind = "invalid_argument"
                              /\ result[s].message = "unknown message type")
    /\ [][\A s \in Sessions :
            pc[s] = "switch" /\ msg[s].kind = "unknown" /\ pc'[s] # pc[s] =>
                /\ pc'[s] = "done"
                /\ hasher'[s] = hasher[s]
                /\ totalSize'[s] = totalSize[s]
                /\ accepted'[s] = accepted[s]
                /\ file'[s].ino = file[s].ino
                /\ file'[s].off = file[s].off
                /\ UNCHANGED fsVars]_vars

\* the empty message arrives after metadata and a chunk
C16_Witness ==
    /\ Done(1)
    /\ Len(handled[1]) = 3
    /\ handled[1][2].kind = "chunk"
    /\ handled[1][3] = EmptyMsg
    /\ accepted[1] = <<<<0, 1>>>>
    /\ totalSize[1] = 2
    /\ result[1].kind = "invalid_argument"

(***************************************************************************)
(* Properties of Server.UploadFile, checked under UnarySpec.               *)
(***************************************************************************)
\* the same paths exist in both directories, with the same contents
SameStorage ==
    \A p \in Paths :
        /\ Exists(udir, p) <=> Exists(dir, p)
        /\ Exists(udir, p) /\ Exists(dir, p) =>
              Content(udir, uinodes, p) = Content(dir, inodes, p)

\* C17: when UploadFile and the streaming session given the same filename,
\* data and digest have both returned, no file system call having failed,
\* they returned the same kind of outcome with the same size and hash flag
\* and left the same files: a mismatching digest gave CodeDataLoss and no
\* file at the path, a matching one success with the hash flag set.
C17_UnaryAsStreaming ==
    /\ uResult # NoResult
    /\ uResult.kind # "internal"
    /\ Done(1)
    /\ NoSinkFailure(1)
    => /\ uResult.kind = result[1].kind
       /\ uResult.size = result[1].size
       /\ uResult.hashOk = result[1].hashOk
       /\ SameStorage
       /\ ~UnaryHashOk => uResult.kind = "data_loss" /\ ~Exists(udir, UnaryPath)
       /\ UnaryHashOk => uResult.kind = "ok" /\ uResult.hashOk

(***************************************************************************)
(* Properties of concurrent sessions, checked under ConcSpec.              *)
(***************************************************************************)
\* no other session holds the path of session s
PathOfItsOwn(s) ==
    \A r \in Sessions \ {s} : filename[r] = <<>> \/ filename[r] # filename[s]

\* the session has removed its file
Removed(s) == \E i \in 1..Len(calls[s]) : calls[s][i].op = "remove"

\* what a session and its file are when the session runs alone, in terms
\* of the session's own messages and calls: the byte count and the hasher
\* are those of the chunks it accepted; its file is gone once it removed
\* it, else it is the file it opened and holds exactly those chunks (and
\* what a failed write got through); a success reports the size and the
\* digest of all the chunks it read
AsAlone(s) ==
    /\ totalSize[s] = SumLen(accepted[s])
    /\ hasher[s] = HashWrite(HashNew, Concat(accepted[s]))
    /\ ~file[s].isNil =>
          /\ Removed(s) => ~Exists(dir, SafePath(s))
          /\ ~Removed(s) =>
                /\ Exists(dir, SafePath(s))
                /\ dir[SafePath(s)] = file[s].ino
                /\ Len(Content(dir, inodes, SafePath(s))) = file[s].off
                /\ Extends(Content(dir, inodes, SafePath(s)), Concat(accepted[s]))
                /\ FailedCalls(s) = {} =>
                      Content(dir, inodes, SafePath(s)) = Concat(accepted[s])
    /\ Done(s) /\ result[s].kind = "ok" =>
          /\ accepted[s] = ChunksOf(handled[s])
          /\ result[s].size = SumLen(accepted[s])
          /\ handled[s][Len(handled[s])].digest = Sha256Hex(Concat(accepted[s]))
          /\ Content(dir, inodes, SafePath(s)) = Concat(accepted[s])

\* C18: whether session 1 runs alone or beside session 2, under every
\* interleaving of their steps, a session whose path no other session
\* holds has the byte count, hasher, outcome and file it has when alone.
C18_SessionsIndependent ==
    \A s \in Sessions : pc[s] # "off" /\ PathOfItsOwn(s) => AsAlone(s)

\* both sessions succeeded, on different paths, each with its own chunk
C18_Witness ==
    /\ Done(1) /\ result[1].kind = "ok" /\ accepted[1] = <<<<0>>>>
    /\ Done(2) /\ result[2].kind = "ok" /\ accepted[2] = <<<<1, 1>>>>
    /\ filename[1] # filename[2]
    /\ Content(dir, inodes, SafePath(1)) = <<0>>
    /\ Content(dir, inodes, SafePath(2)) = <<1, 1>>

(***************************************************************************)
(* Properties of the server without commit message, checked under          *)
(* VariantSpec.                                                            *)
(***************************************************************************)
\* the stream of the session ended cleanly after a metadata message
EndedAfterMetadata(s) ==
    /\ Done(s)
    /\ Len(handled[s]) >= 2
    /\ handled[s][1].kind = "metadata"
    /\ handled[s][Len(handled[s])] = EndOfStream

\* C19: a session that read a metadata message and then saw the stream end
\* cleanly returns success with the size of the chunks it read; its hash
\* flag is set exactly when the digest of the metadata message is the
\* digest of those chunks, so never for an empty digest; and the file holds
\* those chunks whatever the flag.
C19_EndOfStreamCommits ==
    \A s \in Sessions : EndedAfterMetadata(s) =>
        /\ result[s].kind = "ok"
        /\ result[s].size = SumLen(ChunksOf(handled[s]))
        /\ result[s].hashOk <=>
              handled[s][1].digest = Sha256Hex(Concat(ChunksOf(handled[s])))
        /\ handled[s][1].digest = <<>> => ~result[s].hashOk
        /\ Exists(dir, SafePath(s))
        /\ Content(dir, inodes, SafePath(s)) = Concat(ChunksOf(handled[s]))

\* metadata without digest, two chunks, end of stream: accepted, not verified
C19_Witness ==
    /\ EndedAfterMetadata(1)
    /\ handled[1][1].digest = <<>>
    /\ accepted[1] = <<<<0>>, <<1>>>>
    /\ result[1] = UploadResponse("ok", 2, FALSE)
    /\ Content(dir, inodes, SafePath(1)) = <<0, 1>>

(***************************************************************************)
(* Properties of the cancellation check of Server.Upload, checked under    *)
(* Spec.                                                                   *)
(***************************************************************************)
\* the session received a message it did not read
Dropped(s) == received[s] = Len(handled[s]) + 1

\* C20: each time stream.Receive() hands over a message the handler first
\* polls the context.  If it is done, the message is not read: nothing is
\* written or hashed, an open file is closed and removed, and the handler
\* returns the cancellation error; only otherwise is the message read.  So
\* every message read was polled for, and at most one message, the last,
\* is dropped.
C20_CancelPolledPerMessage ==
    /\ [](\A s \in Sessions :
            /\ received[s] = Len(handled[s]) \/ Dropped(s)
            /\ Dropped(s) =>
                  /\ Done(s)
                  /\ ctxDone[s]
                  /\ result[s].kind = "canceled"
                  /\ ~file[s].isNil =>
                        /\ ~file[s].open
                        /\ ~Exists(dir, SafePath(s))
                        /\ \E i \in 1..Len(calls[s]) - 1 :
                              /\ calls[s][i].op = "close"
                              /\ calls[s][i + 1].op = "remove")
    /\ [][\A s \in Sessions : received'[s] # received[s] =>
            IF ctxDone[s]
            THEN /\ handled'[s] = handled[s]
                 /\ msg'[s] = msg[s]
                 /\ accepted'[s] = accepted[s]
                 /\ hasher'[s] = hasher[s]
                 /\ totalSize'[s] = totalSize[s]
                 /\ inodes' = inodes
                 /\ pc'[s] = "done"
            ELSE /\ handled'[s] = Append(handled[s], msg'[s])
                 /\ pc'[s] = "switch"]_vars

\* a message arrives after metadata, a chunk and the cancellation
C20_Witness ==
    /\ Dropped(1)
    /\ Len(handled[1]) = 2
    /\ accepted[1] = <<<<1>>>>
    /\ result[1].kind = "canceled"
    /\ ~Exists(dir, SafePath(1))
    /\ totalSize[1] = 1

(***************************************************************************)
(* Properties of Server.Upload settled after those above, checked under    *)
(* Spec unless said otherwise.                                             *)
(***************************************************************************)
\* C21: a cancellation signalled while a message is being handled (a sink
\* call or the digest comparison in progress) is seen before the handler
\* returns success: no session whose context is done returns success.
C21_CancelSeenBeforeSuccess ==
    \A s \in Sessions : Done(s) /\ result[s].kind = "ok" => ~ctxDone[s]

\* C22: however a session ends once its file was opened, the file is
\* closed when the call has returned, and a Close call that succeeded is
\* among its calls.
C22_ClosedOnReturn ==
    \A s \in Sessions : Done(s) /\ ~file[s].isNil =>
        /\ ~file[s].open
        /\ \E i \in 1..Len(calls[s]) : calls[s][i].op = "close" /\ calls[s][i].ok

\* the stream breaks after metadata and a chunk
C22_Witness ==
    /\ Done(1)
    /\ result[1].kind = "stream_error"
    /\ ~file[1].isNil
    /\ ~file[1].open
    /\ accepted[1] = <<<<1, 1>>>>

\* C23: every os.Remove of a session comes right after a file.Close() that
\* succeeded, and no file.Write follows a file.Close().
C23_CloseBeforeRemove ==
    \A s \in Sessions : \A k \in 1..Len(calls[s]) :
        /\ calls[s][k].op = "remove" =>
              /\ k > 1
              /\ calls[s][k - 1].op = "close"
              /\ calls[s][k - 1].ok
        /\ calls[s][k].op = "close" =>
              \A j \in k + 1..Len(calls[s]) : calls[s][j].op # "write"

\* a digest mismatch after a chunk: create, write, close, remove, and the
\* deferred close
C23_Witness ==
    /\ Done(1)
    /\ result[1].kind = "data_loss"
    /\ Len(calls[1]) = 5
    /\ calls[1][2].op = "write"
    /\ calls[1][3].op = "close"
    /\ calls[1][4] = Call("remove", SafePath(1), TRUE)
    /\ ~Exists(dir, SafePath(1))

\* the handler returned out of stream.Receive(): it read nothing, or
\* metadata and then only chunks, all of them written
EndedAtReceive(s) ==
    /\ Done(s)
    /\ FailedCalls(s) = {}
    /\ accepted[s] = ChunksOf(handled[s])
    /\ handled[s] # <<>> =>
          /\ handled[s][1].kind = "metadata"
          /\ \A i \in 2..Len(handled[s]) : handled[s][i].kind = "chunk"

\* C24: a session that returns out of stream.Receive(), no commit read,
\* never returns success; when the return is not for a cancellation or a
\* stream error, it is CodeInvalidArgument "stream closed without commit",
\* with or without metadata and chunks read, nothing is removed and an
\* opened file is still at its path with the chunks written to it.
C24_NoCommitNoSuccess ==
    \A s \in Sessions : EndedAtReceive(s) =>
        /\ result[s].kind # "ok"
        /\ result[s].kind \notin {"canceled", "stream_error"} =>
              /\ result[s].kind = "invalid_argument"
              /\ result[s].message = "stream closed without commit"
              /\ ~Removed(s)
              /\ ~file[s].isNil =>
                    /\ Exists(dir, SafePath(s))
                    /\ Content(dir, inodes, SafePath(s)) = Concat(accepted[s])

\* the stream ends after metadata and a chunk
C24_Witness ==
    /\ EndedAtReceive(1)
    /\ result[1].message = "stream closed without commit"
    /\ accepted[1] = <<<<0, 1>>>>
    /\ Content(dir, inodes, SafePath(1)) = <<0, 1>>

(***************************************************************************)
(* Properties of concurrent sessions on one filename, checked under        *)
(* ConcSpec.                                                               *)
(***************************************************************************)
\* the session returned success and its file is gone or is not what it
\* accepted
SuccessWithoutItsFile(s) ==
    /\ Done(s)
    /\ result[s].kind = "ok"
    /\ \/ ~Exists(dir, SafePath(s))
       \/ Content(dir, inodes, SafePath(s)) # Concat(accepted[s])

\* C25: sessions that opened the same path, neither having removed it,
\* hold one and the same file, the one at the path; and a session returns
\* success with its file gone or not holding what it accepted only when
\* another session opened the same path (such a state is reachable).
C25_SameNameRace ==
    \A s \in Sessions : \A r \in Sessions \ {s} :
        /\ /\ ~file[s].isNil
           /\ ~file[r].isNil
           /\ filename[s] = filename[r]
           /\ ~Removed(s)
           /\ ~Removed(r)
           => /\ file[s].ino = file[r].ino
              /\ dir[SafePath(s)] = file[s].ino
        /\ SuccessWithoutItsFile(s) =>
              /\ ~file[r].isNil
              /\ filename[r] = filename[s]

\* session 1 returned success and session 2, on the same filename, has
\* removed the file after a digest mismatch
C25_Witness ==
    /\ SuccessWithoutItsFile(1)
    /\ accepted[1] = <<<<0>>>>
    /\ filename[2] = filename[1]
    /\ Done(2)
    /\ result[2].kind = "data_loss"
    /\ ~Exists(dir, SafePath(1))

\* the messages the Go client has sent are metadata, chunks, commit, in order
ClientOrder ==
    /\ \A i \in 1..Len(cSent) :
          /\ cSent[i].kind = "metadata" <=> i = 1
          /\ cSent[i].kind \in {"metadata", "chunk", "finish_commit"}
          /\ cSent[i].kind = "finish_commit" => i = Len(cSent)
    /\ cSent # <<>> => cSent[1] = MetadataMsg(Base(cPath))

\* the client has sent its commit
ClientCommitted == cSent # <<>> /\ cSent[Len(cSent)].kind = "finish_commit"

\* C26: the Go client sends exactly one metadata first, then the file's
\* bytes as chunks, in file order and each byte once, then exactly one
\* finish_commit, last, whose digest is the digest of the bytes sent as
\* chunks, which are then the whole file; it closes the stream only after
\* the commit.
C26_ClientMessageOrder ==
    /\ ClientOrder
    /\ Concat(ChunksOf(cSent)) = SubSeq(cFile, 1, cTotalBytes)
    /\ ClientCommitted =>
          /\ cSent[Len(cSent)].digest = Sha256Hex(Concat(ChunksOf(cSent)))
          /\ Concat(ChunksOf(cSent)) = cFile
    /\ cPc \in {"close", "wait", "done"} => ClientCommitted
    /\ cPc \in {"read", "commit"} => cSent # <<>> /\ ~ClientCommitted

C26_Witness ==
    /\ cPc = "wait"
    /\ Len(cFile) = MaxFileLen
    /\ Len(cSent) = 4
    /\ cSent[2].kind = "chunk" /\ Len(cSent[2].chunk) = 1
    /\ ClientCommitted

\* where the handler stores the file the Go client uploads
E2EPath == Join(uploadDir, sanitizeFilename(Base(cPath)))

\* the client has the handler's success for its whole file, which is stored
E2ESuccess ==
    /\ cPc = "done"
    /\ cResp.kind = "ok"
    /\ cResp.hashOk
    /\ cResp.size = Len(cFile)
    /\ Exists(dir, E2EPath)
    /\ Content(dir, inodes, E2EPath) = cFile

\* C27: over a reliable in-order stream, without cancellation or sink
\* failure, the Go client's upload of a finite file always ends, with the
\* handler's success (hash_ok = true, size = the file's size) and the stored
\* file equal to the source file.
C27_UploadTerminatesVerified == <>[]E2ESuccess

C27_Witness ==
    /\ E2ESuccess
    /\ Len(cFile) = MaxFileLen
    /\ Len(accepted[1]) >= 2

\* the handler returned because a file.Write failed
WriteFailed(s) ==
    /\ Done(s)
    /\ result[s] = Failure("internal", "write failed")
    /\ calls[s] # <<>>
    /\ calls[s][Len(calls[s])].op \in {"write", "close"}
    /\ \E i \in 1..Len(calls[s]) : calls[s][i].op = "write" /\ ~calls[s][i].ok

\* C28: when writing a chunk fails, that chunk is not fed to the hasher and
\* not counted: at the return the digest state and the byte counter are
\* those of the chunks written successfully before it.
C28_FailedChunkNotCounted ==
    \A s \in Sessions :
        WriteFailed(s) =>
            /\ hasher[s] = HashWrite(HashNew, Concat(accepted[s]))
            /\ totalSize[s] = SumLen(accepted[s])
            /\ ChunksOf(handled[s]) = Append(accepted[s], msg[s].chunk)

C28_Witness ==
    /\ WriteFailed(1)
    /\ accepted[1] = <<<<1>>>>
    /\ msg[1].chunk = <<0, 1>>
    /\ totalSize[1] = 1

\* session s handles a chunk of no bytes and file.Write succeeds
EmptyChunkWritten(s) ==
    /\ pc[s] = "switch"
    /\ msg[s].kind = "chunk"
    /\ msg[s].chunk = <<>>
    /\ ~file[s].isNil
    /\ calls'[s] = Append(calls[s], Call("write", SafePath(s), TRUE))

\* the handler read metadata, chunks of no bytes if any, and a commit with
\* the digest of no bytes
EmptyUpload(s) ==
    /\ MetadataChunksCommit(s)
    /\ Concat(ChunksOf(handled[s])) = <<>>
    /\ handled[s][Len(handled[s])].digest = Sha256Hex(<<>>)
    /\ NoSinkFailure(s)

\* C29: a chunk of no bytes after the metadata is accepted: the handler goes
\* on receiving with the byte counter, the file and the hasher as they were;
\* so metadata followed at once by a commit with the digest of the empty
\* sequence returns success with size 0.
C29_EmptyChunkAccepted ==
    /\ [](\A s \in Sessions :
             Done(s) /\ EmptyUpload(s) =>
                 /\ result[s] = UploadResponse("Upload successful and verified", 0, TRUE)
                 /\ Content(dir, inodes, ResolvedPath(s)) = <<>>)
    /\ [][\A s \in Sessions :
             EmptyChunkWritten(s) =>
                 /\ pc'[s] = "recv"
                 /\ totalSize'[s] = totalSize[s]
                 /\ hasher'[s] = hasher[s]
                 /\ file'[s] = file[s]
                 /\ fsVars' = fsVars]_vars

C29_Witness ==
    /\ Done(1)
    /\ EmptyUpload(1)
    /\ Len(handled[1]) = 3
    /\ handled[1][2] = ChunkMsg(<<>>)
    /\ result[1].kind = "ok"
    /\ result[1].size = 0

====
